---- MODULE Spec2Model ----
(***************************************************************************)
(* Model of the healthkit-mcp workout store (src/routes/storage.py) and of *)
(* the ingest routes that mutate it (src/routes/ingest.py).                *)
(*                                                                         *)
(* Encodings.  A Python str is a sequence of one-character strings.  A     *)
(* workout dict is a function from the field names it holds to values; an  *)
(* absent field is a name outside its DOMAIN.  An Optional[float] value is *)
(* a sequence of length 0 (None) or 1 (the number).  The dict              *)
(* self.workouts is a sequence of [k, v] entries in insertion order, as a  *)
(* Python dict iterates.  The clock is read at day granularity.            *)
(***************************************************************************)
EXTENDS Integers, Sequences, FiniteSets, TLC

VARIABLES
    workouts,   \* WorkoutStorage.workouts: ordered mapping key -> workout
    file,       \* the backing file at WORKOUT_STORAGE_PATH
    day,        \* days elapsed on the wall clock (America/Los_Angeles)
    api_key,    \* HEALTHKIT_API_KEY of the environment ("" = not configured)
    resp,       \* the last call and what it returned
    hist,       \* history of the add calls since the store was last empty
    failures,    \* file writes that have failed so far
    inflight,   \* requests the server has accepted and not yet begun to handle
    running,    \* handlers begun and not yet finished, each with its position
    begun       \* the mapping, the file and the requests of the current round

\* The requests in flight and their handlers.
handlers == <<inflight, running, begun>>

vars == <<workouts, file, day, api_key, resp, hist, failures, handlers>>

\* ------------------------------------------------------------------ bounds
\* Requests issued together.
MaxInflight == 2

MaxStored == 2      \* add is offered a new key while fewer records are stored
MaxFailures == 1    \* failed file writes in one behaviour
MaxDay == 1         \* days the clock advances

\* ----------------------------------------------------------------- strings
Digits == <<"0", "1", "2", "3", "4", "5", "6", "7", "8", "9">>

UpperCase == <<"A", "B", "C", "D", "E", "F", "G", "H", "I", "J", "K", "L", "M",
               "N", "O", "P", "Q", "R", "S", "T", "U", "V", "W", "X", "Y", "Z">>

LowerCase == <<"a", "b", "c", "d", "e", "f", "g", "h", "i", "j", "k", "l", "m",
               "n", "o", "p", "q", "r", "s", "t", "u", "v", "w", "x", "y", "z">>

\* The characters of the model in code point order.
AsciiOrder == <<"-">> \o Digits \o <<":">> \o UpperCase \o <<"_">> \o LowerCase

Range(s) == {s[i] : i \in 1..Len(s)}

\* ord(c), up to the offset of the first character
OrdTable ==
    [c \in Range(AsciiOrder) |-> CHOOSE i \in 1..Len(AsciiOrder) : AsciiOrder[i] = c]

Ord(c) == OrdTable[c]

Min(S) == CHOOSE x \in S : \A y \in S : x <= y

\* Python's a <= b on str: lexicographic by code point.
StrLeq(a, b) ==
    LET n == IF Len(a) <= Len(b) THEN Len(a) ELSE Len(b)
        diff == {i \in 1..n : a[i] # b[i]}
        first == Min(diff)
    IN  IF diff = {} THEN Len(a) <= Len(b)
        ELSE Ord(a[first]) < Ord(b[first])

\* c.lower() of an upper case letter
LowerTable ==
    [c \in Range(UpperCase) |->
        LowerCase[CHOOSE j \in 1..Len(UpperCase) : UpperCase[j] = c]]

\* str.lower()
lower(s) ==
    [i \in 1..Len(s) |-> IF s[i] \in DOMAIN LowerTable THEN LowerTable[s[i]] ELSE s[i]]

\* str.startswith(prefix)
startswith(s, prefix) ==
    /\ Len(prefix) <= Len(s)
    /\ \A i \in 1..Len(prefix) : s[i] = prefix[i]

\* s[:10]
Prefix10(s) == SubSeq(s, 1, IF Len(s) < 10 THEN Len(s) ELSE 10)

\* str(None), as the f-string of _get_key renders an absent field
NoneStr == <<"N", "o", "n", "e">>

\* ------------------------------------------------------------------- dates
IsLeap(y) == (y % 4 = 0 /\ y % 100 # 0) \/ y % 400 = 0

DaysInMonth(y, m) ==
    IF m = 2 THEN (IF IsLeap(y) THEN 29 ELSE 28)
    ELSE IF m \in {4, 6, 9, 11} THEN 30 ELSE 31

NextDate(dt) ==
    IF dt.d < DaysInMonth(dt.y, dt.m) THEN [dt EXCEPT !.d = dt.d + 1]
    ELSE IF dt.m < 12 THEN [y |-> dt.y, m |-> dt.m + 1, d |-> 1]
    ELSE [y |-> dt.y + 1, m |-> 1, d |-> 1]

PrevDate(dt) ==
    IF dt.d > 1 THEN [dt EXCEPT !.d = dt.d - 1]
    ELSE IF dt.m > 1
         THEN [y |-> dt.y, m |-> dt.m - 1, d |-> DaysInMonth(dt.y, dt.m - 1)]
    ELSE [y |-> dt.y - 1, m |-> 12, d |-> 31]

\* date + timedelta(days=n), n of either sign
RECURSIVE AddDays(_, _)
AddDays(dt, n) ==
    IF n = 0 THEN dt
    ELSE IF n > 0 THEN AddDays(NextDate(dt), n - 1)
    ELSE AddDays(PrevDate(dt), n + 1)

Digit(n) == Digits[n + 1]

\* strftime("%Y-%m-%d") for a four-digit year
strftime(dt) ==
    << Digit(dt.y \div 1000), Digit((dt.y \div 100) % 10),
       Digit((dt.y \div 10) % 10), Digit(dt.y % 10), "-",
       Digit(dt.m \div 10), Digit(dt.m % 10), "-",
       Digit(dt.d \div 10), Digit(dt.d % 10) >>

\* The date of the wall clock when the process starts.
StartDate == [y |-> 2024, m |-> 2, d |-> 29]

\* datetime.now(pacific), at day granularity
now == AddDays(StartDate, day)

\* --------------------------------------------------------- dict operations
\* w.get(f, default)
Get(w, f, default) == IF f \in DOMAIN w THEN w[f] ELSE default

\* key in d
DictHas(d, k) == \E i \in 1..Len(d) : d[i].k = k

\* d[k] = v: an existing key keeps its position, a new key goes last
DictSet(d, k, v) ==
    IF DictHas(d, k)
    THEN [i \in 1..Len(d) |-> IF d[i].k = k THEN [k |-> k, v |-> v] ELSE d[i]]
    ELSE Append(d, [k |-> k, v |-> v])

\* list(d.values())
DictValues(d) == [i \in 1..Len(d) |-> d[i].v]

\* ------------------------------------------------------------ the store
\* WorkoutStorage._get_key: f"{workout.get('type')}_{workout.get('start')}"
_get_key(workout) ==
    Get(workout, "type", NoneStr) \o <<"_">> \o Get(workout, "start", NoneStr)

\* The sort key of every query: w.get("start", "")
StartOf(w) == Get(w, "start", <<>>)

\* list.sort(key=start, reverse=...): stable, equal keys keep their order
RECURSIVE sort(_, _)
sort(lst, reverse) ==
    IF lst = <<>> THEN <<>>
    ELSE LET x == lst[Len(lst)]
             rest == sort(SubSeq(lst, 1, Len(lst) - 1), reverse)
             p == Cardinality({i \in 1..Len(rest) :
                      IF reverse THEN StrLeq(StartOf(x), StartOf(rest[i]))
                      ELSE StrLeq(StartOf(rest[i]), StartOf(x))})
         IN  SubSeq(rest, 1, p) \o <<x>> \o SubSeq(rest, p + 1, Len(rest))

\* The loops of the queries: the elements of lst whose index is in idx,
\* in list order.
RECURSIVE Pick(_, _)
Pick(lst, idx) ==
    IF lst = <<>> THEN <<>>
    ELSE LET head == Pick(SubSeq(lst, 1, Len(lst) - 1), idx)
         IN  IF Len(lst) \in idx THEN Append(head, lst[Len(lst)]) ELSE head

\* WorkoutStorage.get_all
get_all == sort(DictValues(workouts), TRUE)

\* get_by_date that sorts most recent first, as the other queries do.
get_by_date_descending(date_str) ==
    LET vals == DictValues(workouts)
        keep == {i \in 1..Len(vals) : startswith(StartOf(vals[i]), date_str)}
    IN  sort(Pick(vals, keep), TRUE)

\* WorkoutStorage.get_by_date
get_by_date(date_str) ==
    LET vals == DictValues(workouts)
        keep == {i \in 1..Len(vals) : startswith(StartOf(vals[i]), date_str)}
    IN  sort(Pick(vals, keep), FALSE)

\* get_by_type that lowers the stored type only.
get_by_type_exact(workout_type) ==
    LET vals == DictValues(workouts)
        keep == {i \in 1..Len(vals) :
                    lower(Get(vals[i], "type", <<>>)) = workout_type}
    IN  sort(Pick(vals, keep), TRUE)

\* WorkoutStorage.get_by_type
get_by_type(workout_type) ==
    LET vals == DictValues(workouts)
        wanted == lower(workout_type)
        keep == {i \in 1..Len(vals) : lower(Get(vals[i], "type", <<>>)) = wanted}
    IN  sort(Pick(vals, keep), TRUE)

\* cutoff_str with the timedelta added instead of subtracted.
cutoff_str_forward(days) == strftime(AddDays(now, days))

\* cutoff_str of get_recent: (now - timedelta(days)).strftime("%Y-%m-%d")
cutoff_str(days) == strftime(AddDays(now, 0 - days))

\* start_date with the sentinel of get_summary for a short start.
start_date_or_unknown(w) ==
    IF Len(StartOf(w)) >= 10 THEN Prefix10(StartOf(w))
    ELSE <<"u", "n", "k", "n", "o", "w", "n">>

\* start[:10] if len(start) >= 10 else ""
start_date(w) ==
    IF Len(StartOf(w)) >= 10 THEN Prefix10(StartOf(w)) ELSE <<>>

\* WorkoutStorage.get_recent
get_recent(days) ==
    LET vals == DictValues(workouts)
        cutoff == cutoff_str(days)
        keep == {i \in 1..Len(vals) : StrLeq(cutoff, start_date(vals[i]))}
    IN  sort(Pick(vals, keep), TRUE)

\* WorkoutStorage.get_today
get_today == get_by_date(strftime(now))

\* The defaults of get_summary for an absent type and a short start.
UnknownType == <<"U", "n", "k", "n", "o", "w", "n">>

UnknownDate == <<"u", "n", "k", "n", "o", "w", "n">>

\* A missing number counted as one unit.
OrOne(v) == IF v = <<>> THEN 1 ELSE v[1]

\* `x or 0` on an Optional number: None and 0 both give 0
OrZero(v) == IF v = <<>> THEN 0 ELSE v[1]

\* d[k] = v on a mapping held as a function
Put(f, k, v) == [x \in DOMAIN f \cup {k} |-> IF x = k THEN v ELSE f[x]]

\* One turn of the loop of get_summary: the summary after workout w.
SummaryStep(summary, w) ==
    LET wtype == Get(w, "type", UnknownType)
        old == IF wtype \in DOMAIN summary.by_type
               THEN summary.by_type[wtype]
               ELSE [count |-> 0, total_duration |-> 0, total_calories |-> 0]
        duration == OrZero(Get(w, "duration_minutes", <<>>))
        calories == OrZero(Get(w, "calories", <<>>))
        date == IF Len(StartOf(w)) >= 10 THEN Prefix10(StartOf(w))
                ELSE UnknownDate
        sofar == IF date \in DOMAIN summary.workouts_by_date
                 THEN summary.workouts_by_date[date] ELSE <<>>
    IN  [summary EXCEPT
            !.total_duration_minutes = @ + duration,
            !.total_calories = @ + calories,
            !.by_type = Put(@, wtype,
                [count |-> old.count + 1,
                 total_duration |-> old.total_duration + duration,
                 total_calories |-> old.total_calories + calories]),
            !.workouts_by_date = Put(@, date,
                Append(sofar, [type |-> wtype, duration |-> duration,
                               calories |-> calories]))]

RECURSIVE SummaryLoop(_, _)
SummaryLoop(summary, lst) ==
    IF lst = <<>> THEN summary
    ELSE SummaryLoop(SummaryStep(summary, Head(lst)), Tail(lst))

\* get_summary that takes total_workouts from the whole mapping.
get_summary_counts_all(days) ==
    LET recent == get_recent(days)
    IN  SummaryLoop([period_days |-> days,
                     total_workouts |-> Len(workouts),
                     total_duration_minutes |-> 0,
                     total_calories |-> 0,
                     by_type |-> <<>>,
                     workouts_by_date |-> <<>>], recent)

\* WorkoutStorage.get_summary
get_summary(days) ==
    LET recent == get_recent(days)
    IN  SummaryLoop([period_days |-> days,
                     total_workouts |-> Len(recent),
                     total_duration_minutes |-> 0,
                     total_calories |-> 0,
                     by_type |-> <<>>,
                     workouts_by_date |-> <<>>], recent)

\* WorkoutStorage.count
count == Len(workouts)

\* ------------------------------------------------------------ persistence
\* The file is absent, unparseable, or holds a JSON array; an element of the
\* array is an object (a workout) or some other JSON value.
JsonObject(w) == [tag |-> "object", fields |-> w]

NotAnObject == [tag |-> "number"]

\* json.dump(list(self.workouts.values()), f)
json_dump(ws) == [i \in 1..Len(ws) |-> JsonObject(ws[i].v)]

\* What a write leaves in the file: open(path, "w") may fail and leave the
\* file as it was; a failure after the open leaves a truncated file.
SaveOutcomes == {"ok", "open_failed", "write_failed"}

\* _save_to_file without its except clause: the failure leaves the call.
_save_to_file_raises(ws, outcome) ==
    [file |-> CASE outcome = "ok" -> [kind |-> "json", items |-> json_dump(ws)]
                [] outcome = "open_failed" -> file
                [] OTHER -> [kind |-> "corrupt", items |-> <<>>],
     raised |-> outcome # "ok"]

\* WorkoutStorage._save_to_file, of the mapping ws as just changed.
\* The except clause swallows every failure: nothing is raised.
_save_to_file(ws, outcome) ==
    [file |-> CASE outcome = "ok" -> [kind |-> "json", items |-> json_dump(ws)]
                [] outcome = "open_failed" -> file
                [] OTHER -> [kind |-> "corrupt", items |-> <<>>],
     raised |-> FALSE]

\* The loop of _load_from_file with the start alone as the key.
RECURSIVE LoadLoop_keyed_by_start(_, _)
LoadLoop_keyed_by_start(ws, items) ==
    IF items = <<>> THEN [workouts |-> ws, failed |-> FALSE]
    ELSE IF Head(items).tag # "object" THEN [workouts |-> ws, failed |-> TRUE]
    ELSE LoadLoop_keyed_by_start(
             DictSet(ws, StartOf(Head(items).fields), Head(items).fields),
             Tail(items))

\* The loop of _load_from_file that keeps the record a key already has.
RECURSIVE LoadLoop_first_wins(_, _)
LoadLoop_first_wins(ws, items) ==
    IF items = <<>> THEN [workouts |-> ws, failed |-> FALSE]
    ELSE IF Head(items).tag # "object" THEN [workouts |-> ws, failed |-> TRUE]
    ELSE LoadLoop_first_wins(
             IF DictHas(ws, _get_key(Head(items).fields)) THEN ws
             ELSE DictSet(ws, _get_key(Head(items).fields), Head(items).fields),
             Tail(items))

\* The loop of _load_from_file over the parsed list: an element without
\* .get raises and ends the loop, and what was inserted before it stays.
RECURSIVE LoadLoop(_, _)
LoadLoop(ws, items) ==
    IF items = <<>> THEN [workouts |-> ws, failed |-> FALSE]
    ELSE IF Head(items).tag # "object" THEN [workouts |-> ws, failed |-> TRUE]
    ELSE LoadLoop(DictSet(ws, _get_key(Head(items).fields), Head(items).fields),
                  Tail(items))

\* WorkoutStorage._load_from_file into the empty mapping of __init__;
\* readable = FALSE is an I/O error of open or read.  failed: the except
\* clause was taken (the failure is swallowed, nothing is raised).
_load_from_file(readable) ==
    CASE file.kind = "absent" -> [workouts |-> <<>>, failed |-> FALSE]
      [] ~readable -> [workouts |-> <<>>, failed |-> TRUE]
      [] file.kind = "corrupt" -> [workouts |-> <<>>, failed |-> TRUE]
      [] OTHER -> LoadLoop(<<>>, file.items)

\* add_workout that writes the file before it changes the mapping.
add_workout_saves_first(workout, outcome) ==
    LET key == _get_key(workout)
        is_new == ~DictHas(workouts, key)
        saved == _save_to_file(workouts, outcome)
    IN  [workouts |-> DictSet(workouts, key, workout), file |-> saved.file,
         raised |-> saved.raised, ret |-> is_new]

\* add_workout that keeps the record a key already has (setdefault).
add_workout_keeps_first(workout, outcome) ==
    LET key == _get_key(workout)
        is_new == ~DictHas(workouts, key)
        ws == IF is_new THEN DictSet(workouts, key, workout) ELSE workouts
        saved == _save_to_file(ws, outcome)
    IN  [workouts |-> ws, file |-> saved.file, raised |-> saved.raised,
         ret |-> is_new]

\* WorkoutStorage.add_workout
add_workout(workout, outcome) ==
    LET key == _get_key(workout)
        is_new == ~DictHas(workouts, key)
        ws == DictSet(workouts, key, workout)
        saved == _save_to_file(ws, outcome)
    IN  [workouts |-> ws, file |-> saved.file, raised |-> saved.raised,
         ret |-> is_new]

\* clear that takes the count after it has emptied the mapping.
clear_counts_after(outcome) ==
    LET saved == _save_to_file(<<>>, outcome)
    IN  [workouts |-> <<>>, file |-> saved.file, raised |-> saved.raised,
         ret |-> Len(<<>>)]

\* WorkoutStorage.clear
clear(outcome) ==
    LET n == Len(workouts)
        saved == _save_to_file(<<>>, outcome)
    IN  [workouts |-> <<>>, file |-> saved.file, raised |-> saved.raised,
         ret |-> n]

\* ------------------------------------------------------- the ingest routes
\* The fields of WorkoutData and their defaults (None, or the source label).
AppleHealth == <<"A", "p", "p", "l", "e", " ", "H", "e", "a", "l", "t", "h">>

WorkoutDataDefaults ==
    [end |-> <<>>, duration_minutes |-> <<>>, calories |-> <<>>,
     distance_km |-> <<>>, avg_heart_rate |-> <<>>, source |-> AppleHealth]

\* WorkoutData(...): type and start are required (else FastAPI answers 422)
Validates(body) == {"type", "start"} \subseteq DOMAIN body

\* workout.model_dump() plus workout_dict["ingested_at"] = now.isoformat()
workout_dict(body) ==
    [f \in {"type", "start", "ingested_at"} \cup DOMAIN WorkoutDataDefaults |->
        IF f = "ingested_at" THEN strftime(now)
        ELSE IF f \in DOMAIN body THEN body[f]
        ELSE WorkoutDataDefaults[f]]

\* The test of the key that lets a request without the header pass.
Unauthorized_unless_missing(x_api_key) ==
    api_key # "" /\ x_api_key # <<>> /\ x_api_key[1] # api_key

\* The test of the key each mutating route starts with; the header is <<>> when the
\* request has none (Header(None)), else <<value>>.
Unauthorized(x_api_key) ==
    api_key # "" /\ (x_api_key = <<>> \/ x_api_key[1] # api_key)

\* workout_storage.add_workout(workout) on the mapping ws and the file f
\* that the loop of a batch has reached.
AddTo(ws, f, workout, outcome) ==
    LET key == _get_key(workout)
        is_new == ~DictHas(ws, key)
        after == DictSet(ws, key, workout)
    IN  [workouts |-> after,
         file |-> CASE outcome = "ok" -> [kind |-> "json", items |-> json_dump(after)]
                    [] outcome = "open_failed" -> f
                    [] OTHER -> [kind |-> "corrupt", items |-> <<>>],
         ret |-> is_new]

\* One entry of results: {"type", "start", "is_new"}
ResultEntry(w, is_new) == [type |-> w.type, start |-> w.start, is_new |-> is_new]

\* The loop of ingest_workouts_batch that takes is_new from the mapping as
\* it was when the request began.
RECURSIVE BatchLoop_new_at_start(_, _, _)
BatchLoop_new_at_start(acc, dicts, outcomes) ==
    IF dicts = <<>> THEN acc
    ELSE LET w == Head(dicts)
             added == AddTo(acc.workouts, acc.file, w, Head(outcomes))
             is_new == ~DictHas(workouts, _get_key(w))
         IN  BatchLoop_new_at_start(
                 [workouts |-> added.workouts,
                  file |-> added.file,
                  results |-> Append(acc.results, ResultEntry(w, is_new)),
                  new_count |-> IF is_new THEN acc.new_count + 1
                                ELSE acc.new_count],
                 Tail(dicts), Tail(outcomes))

\* The loop of ingest_workouts_batch over batch.workouts, each add with the
\* outcome of its own file write.
RECURSIVE BatchLoop(_, _, _)
BatchLoop(acc, dicts, outcomes) ==
    IF dicts = <<>> THEN acc
    ELSE LET w == Head(dicts)
             added == AddTo(acc.workouts, acc.file, w, Head(outcomes))
         IN  BatchLoop([workouts |-> added.workouts,
                        file |-> added.file,
                        results |-> Append(acc.results, ResultEntry(w, added.ret)),
                        new_count |-> IF added.ret THEN acc.new_count + 1
                                      ELSE acc.new_count],
                       Tail(dicts), Tail(outcomes))

\* The dicts a batch adds: model_dump() of each workout plus ingested_at.
BatchDicts(batch) == [i \in 1..Len(batch) |-> workout_dict(batch[i])]

\* ingest_workouts_batch once the key test has passed.
ingest_workouts_batch(batch, outcomes) ==
    LET done == BatchLoop([workouts |-> workouts, file |-> file,
                           results |-> <<>>, new_count |-> 0],
                          BatchDicts(batch), outcomes)
    IN  [workouts |-> done.workouts,
         file |-> done.file,
         ret |-> [total |-> Len(done.results),
                  new |-> done.new_count,
                  updated |-> Len(done.results) - done.new_count,
                  results |-> done.results]]

\* ------------------------------------------------------------- the inputs
Yoga == <<"Y", "o", "g", "a">>

YogaLower == <<"y", "o", "g", "a">>

YogaUpper == <<"Y", "O", "G", "A">>

Go == <<"G", "o">>

T08 == <<"T", "0", "8">>

DateStr(k) == strftime(AddDays(StartDate, k))

\* Request bodies of POST /ingest/workout.  The 1st and 2nd share (type,
\* start); the 3rd and 4th differ in both fields and concatenate to one key;
\* the last lacks a required field.
YogaToday ==
    [type |-> Yoga, start |-> DateStr(0) \o T08,
     duration_minutes |-> <<30>>, calories |-> <<100>>]

Bodies ==
    { YogaToday,
      [type |-> Yoga, start |-> DateStr(0) \o T08,
       duration_minutes |-> <<45>>],
      [type |-> Go \o <<"_">> \o DateStr(1), start |-> DateStr(1)],
      [type |-> Go, start |-> DateStr(1) \o <<"_">> \o DateStr(1)],
      [type |-> Go] }

\* A workout without type, as a caller of the store or the file may hold.
Untyped == [start |-> DateStr(0) \o T08, duration_minutes |-> <<20>>]

\* Workouts without a start and with the empty start, as the file may hold.
NoStart == [type |-> Go]

EmptyStart == [type |-> Go, start |-> <<>>]

\* The dicts add_workout is called with directly.
DirectWorkouts == {b \in Bodies : Validates(b)} \cup {Untyped}

\* Request bodies of POST /ingest/workout, one body per key and a second
\* one for a key, and the body that does not validate.
HttpBodies ==
    {b \in Bodies : ~Validates(b) \/ b.type \in {Yoga, Go}}

Headers == {<<>>, <<"secret">>, <<"wrong">>}

\* Request bodies of POST /ingest/workouts: no workout; one key twice; two
\* keys; a workout that lacks a required field.
Batches ==
    { <<>>,
      <<YogaToday,
        [type |-> Yoga, start |-> DateStr(0) \o T08, duration_minutes |-> <<45>>]>>,
      <<[type |-> Go, start |-> DateStr(1) \o <<"_">> \o DateStr(1)], YogaToday>>,
      <<YogaToday, [type |-> Go]>> }

\* The file the process finds when it starts.
InitFiles ==
    { [kind |-> "absent", items |-> <<>>],
      [kind |-> "corrupt", items |-> <<>>],
      [kind |-> "json", items |-> <<>>],
      [kind |-> "json", items |-> <<JsonObject(Untyped)>>],
      [kind |-> "json", items |-> <<JsonObject(NoStart), JsonObject(EmptyStart)>>],
      [kind |-> "json", items |-> <<JsonObject(YogaToday), NotAnObject>>],
      [kind |-> "json", items |-> <<NotAnObject, JsonObject(YogaToday)>>],
      [kind |-> "json",
       items |-> <<JsonObject([Untyped EXCEPT !.duration_minutes = <<25>>]),
                   JsonObject(Untyped)>>] }

\* The arguments the queries are asked with.
DateArgs ==
    {DateStr(k) : k \in (0 - 1)..1}
        \cup {SubSeq(DateStr(1), 1, 7), SubSeq(DateStr(0), 1, 5)}

TypeArgs == {Yoga, YogaLower, YogaUpper, Go, <<>>}

DaysArgs == (0 - 1)..1

\* ----------------------------------------------------------- the history
\* The identity of a workout as the store documents it: its (type, start).
PairOf(w) == [f \in {"type", "start"} \cap DOMAIN w |-> w[f]]

\* valid: the store was empty when the history began (constructed without
\* a file, or cleared).  pairs: the (type, start) of every add call since.
\* distinct: those calls had pairwise distinct keys; n: how many they were
\* (kept while distinct holds).
NoHistory(valid) == [valid |-> valid, pairs |-> {}, distinct |-> TRUE, n |-> 0]

Added(w) ==
    LET fresh == hist.distinct /\ \A p \in hist.pairs : _get_key(p) # _get_key(w)
    IN  [valid |-> hist.valid,
         pairs |-> hist.pairs \cup {PairOf(w)},
         distinct |-> fresh,
         n |-> IF fresh THEN hist.n + 1 ELSE 0]

\* The history after the add calls of a batch, in order.
RECURSIVE AddedAll(_, _)
AddedAll(h, dicts) ==
    IF dicts = <<>> THEN h
    ELSE LET w == Head(dicts)
             fresh == h.distinct /\ \A p \in h.pairs : _get_key(p) # _get_key(w)
         IN  AddedAll([valid |-> h.valid,
                       pairs |-> h.pairs \cup {PairOf(w)},
                       distinct |-> fresh,
                       n |-> IF fresh THEN h.n + 1 ELSE 0], Tail(dicts))

\* ------------------------------------------------------------ the actions
\* resp: the route (http) and the store method (call) last run, the argument
\* and the return value of a mutating call, whether an exception left the
\* call (raised) or was caught inside it (caught), how its file write went
\* (saved), the HTTP status, and the records the call displaced (replaced).
NoResp ==
    [http |-> "", call |-> "none", arg |-> <<>>, ret |-> <<>>,
     raised |-> FALSE, caught |-> FALSE, saved |-> "none", status |-> 0,
     replaced |-> {}, x_api_key |-> <<>>]

\* No requests have been issued together yet.
NoRound ==
    [workouts |-> <<>>, file |-> [kind |-> "absent", items |-> <<>>],
     requests |-> {}]

\* WorkoutStorage(): the mapping starts empty and is filled from the file.
Loaded(loaded) == [NoResp EXCEPT !.call = "load", !.caught = loaded.failed]

Init ==
    /\ file \in InitFiles
    /\ api_key \in {"", "secret"}
    /\ day = 0
    /\ failures = 0
    /\ \E readable \in BOOLEAN :
          /\ workouts = _load_from_file(readable).workouts
          /\ resp = Loaded(_load_from_file(readable))
    /\ hist = NoHistory(file.kind = "absent")
    /\ inflight = {}
    /\ running = {}
    /\ begun = NoRound

\* The process restarts: the singleton is constructed again from the file.
Restart(readable) ==
    /\ workouts' = _load_from_file(readable).workouts
    /\ resp' = Loaded(_load_from_file(readable))
    /\ hist' = NoHistory(file.kind = "absent")
    /\ UNCHANGED <<file, day, api_key, handlers, failures>>

\* The bounds on what the environment offers a mutating call.
MayFail(outcome) == outcome # "ok" => failures < MaxFailures

MayAdd(w, outcome) ==
    /\ DictHas(workouts, _get_key(w)) \/ Len(workouts) < MaxStored
    /\ MayFail(outcome)

Failed(outcome) == IF outcome = "ok" THEN failures ELSE failures + 1

\* The records the mapping held under the key of w.
Replaced(w) ==
    {workouts[i].v : i \in {j \in 1..Len(workouts) : workouts[j].k = _get_key(w)}}

\* What the caller of add_workout(w) sees.
AddResponse(w, outcome) ==
    LET added == add_workout(w, outcome)
    IN  [NoResp EXCEPT !.call = "add_workout", !.arg = w,
                       !.ret = added.ret,
                       !.raised = added.raised,
                       !.caught = outcome # "ok", !.saved = outcome,
                       !.replaced = Replaced(w)]

\* What the caller of clear() sees.
ClearResponse(outcome) ==
    LET cleared == clear(outcome)
    IN  [NoResp EXCEPT !.call = "clear",
                       !.ret = cleared.ret,
                       !.raised = cleared.raised,
                       !.caught = outcome # "ok", !.saved = outcome,
                       !.replaced = Range(DictValues(workouts))]

\* workout_storage.add_workout(w), called directly
AddWorkout(w, outcome) ==
    /\ MayAdd(w, outcome)
    /\ LET added == add_workout(w, outcome)
       IN  workouts' = added.workouts /\ file' = added.file
    /\ resp' = AddResponse(w, outcome)
    /\ hist' = Added(w)
    /\ failures' = Failed(outcome)
    /\ UNCHANGED <<day, api_key, handlers>>

\* workout_storage.clear(), called directly
Clear(outcome) ==
    /\ MayFail(outcome)
    /\ workouts' = clear(outcome).workouts
    /\ file' = clear(outcome).file
    /\ resp' = ClearResponse(outcome)
    /\ hist' = NoHistory(TRUE)
    /\ failures' = Failed(outcome)
    /\ UNCHANGED <<day, api_key, handlers>>

\* A request the route turns away before the store is called.
Rejected(http, status, x_api_key) ==
    /\ resp' = [NoResp EXCEPT !.http = http, !.status = status,
                              !.x_api_key = x_api_key]
    /\ UNCHANGED <<workouts, file, day, api_key, handlers, hist, failures>>

\* POST /ingest/workout
IngestWorkout(body, x_api_key) ==
    IF ~Validates(body) THEN Rejected("ingest_workout", 422, x_api_key)
    ELSE IF Unauthorized(x_api_key) THEN Rejected("ingest_workout", 401, x_api_key)
    ELSE \E outcome \in SaveOutcomes :
         LET w == workout_dict(body)
             added == add_workout(w, outcome)
         IN  /\ MayAdd(w, outcome)
             /\ workouts' = added.workouts
             /\ file' = added.file
             /\ resp' = [AddResponse(w, outcome) EXCEPT
                            !.http = "ingest_workout",
                            !.x_api_key = x_api_key,
                            !.status = IF added.raised THEN 500 ELSE 200]
             /\ hist' = Added(w)
             /\ failures' = Failed(outcome)
             /\ UNCHANGED <<day, api_key, handlers>>

\* The file writes of a batch that fail.
FailedWrites(outcomes) == Cardinality({i \in 1..Len(outcomes) : outcomes[i] # "ok"})

\* POST /ingest/workouts.  The file system is in one condition while the
\* request runs: the writes of its adds all end the same way.
IngestWorkoutsBatch(batch, x_api_key) ==
    IF \E i \in 1..Len(batch) : ~Validates(batch[i])
    THEN Rejected("ingest_workouts_batch", 422, x_api_key)
    ELSE IF Unauthorized(x_api_key) THEN Rejected("ingest_workouts_batch", 401, x_api_key)
    ELSE \E outcome \in SaveOutcomes :
         LET outcomes == [i \in 1..Len(batch) |-> outcome]
             done == ingest_workouts_batch(batch, outcomes)
         IN  /\ failures + FailedWrites(outcomes) <= MaxFailures
             /\ Len(done.workouts) <= MaxStored
             /\ workouts' = done.workouts
             /\ file' = done.file
             /\ resp' = [NoResp EXCEPT
                            !.http = "ingest_workouts_batch",
                            !.x_api_key = x_api_key,
                            !.call = "add_workouts",
                            !.arg = BatchDicts(batch),
                            !.ret = done.ret,
                            !.caught = FailedWrites(outcomes) > 0,
                            !.saved = IF outcomes = <<>> THEN "none"
                                      ELSE outcomes[Len(outcomes)],
                            !.status = 200]
             /\ hist' = AddedAll(hist, BatchDicts(batch))
             /\ failures' = failures + FailedWrites(outcomes)
             /\ UNCHANGED <<day, api_key, handlers>>

\* DELETE /ingest/workouts
ClearWorkouts(x_api_key) ==
    IF Unauthorized(x_api_key) THEN Rejected("clear_workouts", 401, x_api_key)
    ELSE \E outcome \in SaveOutcomes :
         /\ MayFail(outcome)
         /\ workouts' = clear(outcome).workouts
         /\ file' = clear(outcome).file
         /\ resp' = [ClearResponse(outcome) EXCEPT
                        !.http = "clear_workouts",
                        !.x_api_key = x_api_key,
                        !.status = IF clear(outcome).raised THEN 500 ELSE 200]
         /\ hist' = NoHistory(TRUE)
         /\ failures' = Failed(outcome)
         /\ UNCHANGED <<day, api_key, handlers>>

\* A query reads the mapping and writes nothing; the value it returns is the
\* value of its operator in the state it is called in.  resp records that
\* the last call was a query.
Query ==
    /\ resp' = [NoResp EXCEPT !.call = "query"]
    /\ UNCHANGED <<workouts, file, day, api_key, handlers, hist, failures>>

\* get_all that persists the mapping on the way.
GetAll_saves ==
    /\ resp' = [NoResp EXCEPT !.call = "query"]
    /\ file' = _save_to_file(workouts, "ok").file
    /\ UNCHANGED <<workouts, day, api_key, handlers, hist, failures>>

GetAll == Query

GetByDate == Query

GetByType == Query

GetRecent == Query

GetToday == Query

GetSummary == Query

Count == Query

\* Midnight passes in America/Los_Angeles.
Tick ==
    /\ day < MaxDay
    /\ day' = day + 1
    /\ resp' = NoResp
    /\ UNCHANGED <<workouts, file, api_key, handlers, hist, failures>>

\* The store, called directly by any caller.
Next ==
    \/ \E readable \in BOOLEAN : Restart(readable)
    \/ \E w \in DirectWorkouts, outcome \in SaveOutcomes : AddWorkout(w, outcome)
    \/ \E outcome \in SaveOutcomes : Clear(outcome)
    \/ GetAll
    \/ GetByDate
    \/ GetByType
    \/ GetRecent
    \/ GetToday
    \/ GetSummary
    \/ Count
    \/ Tick

\* No secret is configured: the store does not read it.
StoreInit == Init /\ api_key = ""

Spec == StoreInit /\ [][Next]_vars

\* The ingest router: the store is changed through its routes only.
HttpNext ==
    \/ \E readable \in BOOLEAN : Restart(readable)
    \/ \E body \in HttpBodies, x_api_key \in Headers :
          IngestWorkout(body, x_api_key)
    \/ \E batch \in Batches, x_api_key \in Headers :
          IngestWorkoutsBatch(batch, x_api_key)
    \/ \E x_api_key \in Headers : ClearWorkouts(x_api_key)

HttpSpec == Init /\ [][HttpNext]_vars

\* ------------------------------------------------- requests in flight
\* The server is one process with one event loop (uvicorn.run(app)); the
\* routes are coroutines.  A request is the store calls its handler makes.
AddCall(w) == [op |-> "add_workout", workout |-> w]

ClearCall == [op |-> "clear"]

IngestRequest(body) ==
    [route |-> "ingest_workout", calls |-> <<AddCall(workout_dict(body))>>]

BatchRequest(batch) ==
    [route |-> "ingest_workouts_batch",
     calls |-> [i \in 1..Len(batch) |-> AddCall(BatchDicts(batch)[i])]]

ClearRequest == [route |-> "clear_workouts", calls |-> <<ClearCall>>]

\* The authorized, well-formed mutating requests clients send.
Requests ==
    {IngestRequest(body) : body \in {b \in HttpBodies : Validates(b)}}
        \cup {BatchRequest(batch) :
                 batch \in {b \in Batches :
                               b # <<>> /\ \A i \in 1..Len(b) : Validates(b[i])}}
        \cup {ClearRequest}

\* Clients issue some requests at the same time, while the server is idle.
Issue(reqs) ==
    /\ inflight = {} /\ running = {}
    /\ inflight' = reqs
    /\ begun' = [workouts |-> workouts, file |-> file, requests |-> reqs]
    /\ UNCHANGED <<workouts, file, day, api_key, resp, hist, failures, running>>

\* Handlers that run in threads: one may begin while others are under way.
MayStart_in_threads == TRUE

\* The event loop calls a handler when no other handler is under way: the
\* routes are `async def` and never await, so each runs from its first
\* line to its return before the loop takes the next request.
MayStart == running = {}

\* The event loop calls the handler of a request.
StartHandler(req) ==
    /\ req \in inflight
    /\ MayStart
    /\ inflight' = inflight \ {req}
    /\ running' = running \cup
          {[req |-> req, todo |-> req.calls, pc |-> "test", snapshot |-> <<>>]}
    /\ UNCHANGED <<workouts, file, day, api_key, resp, hist, failures, begun>>

\* The handler h moves to position pc.
Moved(h, pc) == (running \ {h}) \cup {[h EXCEPT !.pc = pc]}

\* add_workout: key = ..., is_new = key not in self.workouts;
\* clear: count = len(self.workouts)
HandlerTest(h) ==
    /\ h \in running /\ h.pc = "test"
    /\ running' = Moved(h, "update")
    /\ UNCHANGED <<workouts, file, day, api_key, resp, hist, failures,
                   inflight, begun>>

\* add_workout: self.workouts[key] = workout; clear: self.workouts = {}
HandlerUpdate(h) ==
    /\ h \in running /\ h.pc = "update"
    /\ LET call == Head(h.todo)
       IN  IF call.op = "add_workout"
           THEN /\ workouts' = DictSet(workouts, _get_key(call.workout),
                                       call.workout)
                /\ hist' = AddedAll(hist, <<call.workout>>)
           ELSE /\ workouts' = <<>>
                /\ hist' = NoHistory(TRUE)
    /\ running' = Moved(h, "dump")
    /\ UNCHANGED <<file, day, api_key, resp, failures, inflight, begun>>

\* _save_to_file: list(self.workouts.values()) is taken for json.dump
HandlerDump(h) ==
    /\ h \in running /\ h.pc = "dump"
    /\ running' = (running \ {h}) \cup
          {[h EXCEPT !.pc = "write", !.snapshot = json_dump(workouts)]}
    /\ UNCHANGED <<workouts, file, day, api_key, resp, hist, failures,
                   inflight, begun>>

\* _save_to_file: the list is in the file; the store call returns, and the
\* handler makes its next call or answers.
HandlerWrite(h) ==
    /\ h \in running /\ h.pc = "write"
    /\ file' = [kind |-> "json", items |-> h.snapshot]
    /\ IF Len(h.todo) > 1
       THEN /\ running' = (running \ {h}) \cup
                  {[h EXCEPT !.pc = "test", !.todo = Tail(h.todo),
                             !.snapshot = <<>>]}
            /\ UNCHANGED resp
       ELSE /\ running' = running \ {h}
            /\ resp' = [NoResp EXCEPT !.http = h.req.route, !.status = 200]
    /\ UNCHANGED <<workouts, day, api_key, hist, failures, inflight, begun>>

\* The rounds of requests clients issue together.
Rounds == {reqs \in SUBSET Requests : Cardinality(reqs) \in 1..MaxInflight}

ServerNext ==
    \/ \E reqs \in Rounds : Issue(reqs)
    \/ \E req \in Requests : StartHandler(req)
    \/ \E h \in running : HandlerTest(h)
    \/ \E h \in running : HandlerUpdate(h)
    \/ \E h \in running : HandlerDump(h)
    \/ \E h \in running : HandlerWrite(h)

\* The server with requests in flight; no secret is configured.
ServerSpec == StoreInit /\ [][ServerNext]_vars


\* ================================================================ claims
\* The records stored for a (type, start) pair.
StoredFor(ws, pair) == {i \in 1..Len(ws) : PairOf(ws[i].v) = pair}

\* A step that is a call of add_workout / of clear.
AddStep == resp'.call = "add_workout"

ClearStep == resp'.call = "clear"

\* C1: an add of r returns true exactly when no stored record has r's dedup
\* key; it returns false when a record with r's (type, start) was added
\* since the last clear; and after it the store holds exactly one record
\* for r's (type, start), which is r.
C1_LastWriteWins ==
    [][AddStep =>
        LET r == resp'.arg
        IN  /\ resp'.ret =
                  (\A i \in 1..Len(workouts) : _get_key(workouts[i].v) # _get_key(r))
            /\ PairOf(r) \in hist.pairs => resp'.ret = FALSE
            /\ Cardinality(StoredFor(workouts', PairOf(r))) = 1
            /\ \A i \in StoredFor(workouts', PairOf(r)) : workouts'[i].v = r
      ]_vars

\* C1 witness: an add has returned false and displaced a different record
\* with the same (type, start).
C1_Witness ==
    /\ resp.call = "add_workout"
    /\ resp.ret = FALSE
    /\ \E old \in resp.replaced : old # resp.arg /\ PairOf(old) = PairOf(resp.arg)
    /\ \E i \in 1..Len(workouts) : workouts[i].v = resp.arg

\* C2: after n add calls with pairwise distinct keys into an empty store
\* count() is n; clear() returns the count it found and leaves count() = 0.
C2_CountAndClear ==
    /\ [](hist.valid /\ hist.distinct => count = hist.n)
    /\ [][ClearStep => resp'.ret = count /\ count' = 0]_vars

\* C2 witness: two adds with distinct keys went into an empty store.
C2_Witness ==
    /\ hist.valid /\ hist.distinct
    /\ hist.n = 2
    /\ count = 2

\* C3, as claimed: the count is the number of distinct (type, start) pairs
\* added since the store was last empty.
C3_CountIsDistinctPairs ==
    hist.valid => count = Cardinality(hist.pairs)

\* C4: an add or clear whose file write fails does not raise, changes the
\* mapping and returns what it would with a successful write.
C4_BestEffort ==
    [][(AddStep \/ ClearStep) /\ resp'.saved # "ok" =>
        /\ resp'.raised = FALSE
        /\ AddStep =>
              /\ workouts' = add_workout(resp'.arg, "ok").workouts
              /\ resp'.ret = add_workout(resp'.arg, "ok").ret
              /\ \E i \in 1..Len(workouts') : workouts'[i].v = resp'.arg
        /\ ClearStep =>
              /\ workouts' = <<>>
              /\ resp'.ret = Len(workouts)
      ]_vars

\* C4 witness: an add whose write failed has stored a new record that the
\* file does not hold.
C4_Witness ==
    /\ resp.call = "add_workout"
    /\ resp.saved # "ok"
    /\ resp.ret = TRUE
    /\ ~resp.raised
    /\ \E i \in 1..Len(workouts) : workouts[i].v = resp.arg
    /\ \A j \in 1..Len(file.items) : file.items[j] # JsonObject(resp.arg)

\* C5: right after a successful save, constructing a store from the file
\* gives the same set of records and the same count().
C5_RoundTrip ==
    resp.saved = "ok" =>
        LET loaded == _load_from_file(TRUE)
        IN  /\ ~loaded.failed
            /\ Range(DictValues(loaded.workouts)) = Range(DictValues(workouts))
            /\ Len(loaded.workouts) = count

\* C5 witness: two records have been saved.
C5_Witness ==
    /\ resp.saved = "ok"
    /\ count = 2
    /\ Len(_load_from_file(TRUE).workouts) = 2

\* C6: after an add or clear whose write succeeded, the file is the list of
\* the current values of the mapping.
C6_FileMirrorsMapping ==
    resp.saved = "ok" =>
        /\ file.kind = "json"
        /\ Len(file.items) = Len(workouts)
        /\ \A i \in 1..Len(workouts) : file.items[i] = JsonObject(workouts[i].v)

\* C6 witness: after a failed write, an add that overwrote a record has
\* written the file.
C6_Witness ==
    /\ resp.call = "add_workout"
    /\ resp.saved = "ok"
    /\ failures > 0
    /\ \E old \in resp.replaced : old # resp.arg

\* C7, as claimed: a load that ended in its except clause leaves the store
\* empty.
C7_FailedLoadStartsEmpty ==
    resp.call = "load" /\ resp.caught => count = 0

\* C8: a query step leaves the mapping and the file as they were.
C8_QueriesArePure ==
    [][resp'.call = "query" => UNCHANGED <<workouts, file>>]_vars

\* C8 witness: a query has run on a store that holds a record the file
\* does not.
C8_Witness ==
    /\ resp.call = "query"
    /\ count > 0
    /\ file.kind # "json"

\* Two strings that differ in the case of their letters at most.
EqualUpToCase(a, b) ==
    /\ Len(a) = Len(b)
    /\ \A i \in 1..Len(a) :
          \/ a[i] = b[i]
          \/ \E j \in 1..Len(UpperCase) : {a[i], b[i]} = {UpperCase[j], LowerCase[j]}

\* C9: get_by_type(q) returns every stored record whose type is q up to
\* letter case, and no record whose type differs from q by more than case
\* (a record without type counts as one with the empty type).
C9_CaseInsensitive ==
    \A q \in TypeArgs :
        LET result == Range(get_by_type(q))
        IN  /\ result \subseteq Range(DictValues(workouts))
            /\ \A i \in 1..Len(workouts) :
                  LET r == workouts[i].v
                  IN  /\ "type" \in DOMAIN r /\ EqualUpToCase(r.type, q)
                            => r \in result
                      /\ r \in result =>
                            IF "type" \in DOMAIN r THEN EqualUpToCase(r.type, q)
                            ELSE q = <<>>

\* C9 witness: a query in another case returns a record and leaves out a
\* record of another type.
C9_Witness ==
    /\ resp.call = "query"
    /\ \E q \in TypeArgs, i, j \in 1..Len(workouts) :
          /\ "type" \in DOMAIN workouts[i].v
          /\ workouts[i].v.type # q
          /\ workouts[i].v \in Range(get_by_type(q))
          /\ workouts[j].v \notin Range(get_by_type(q))

\* A start with a YYYY-MM-DD prefix.
IsDigit(c) == \E i \in 1..Len(Digits) : Digits[i] = c

WellFormed(start) ==
    /\ Len(start) >= 10
    /\ \A i \in {1, 2, 3, 4, 6, 7, 9, 10} : IsDigit(start[i])
    /\ start[5] = "-" /\ start[8] = "-"

\* C10: for d1 <= d2, every record with a well-formed start that
\* get_recent(d1) returns is returned by get_recent(d2).
C10_RecentMonotonic ==
    LET recent == {[days |-> d, result |-> Range(get_recent(d))] : d \in DaysArgs}
    IN  \A shorter, longer \in recent :
            shorter.days <= longer.days =>
                \A r \in shorter.result :
                    WellFormed(StartOf(r)) => r \in longer.result

\* C10 witness: a longer window returns a well-formed record the shorter
\* one leaves out, and the shorter one is not empty.
C10_Witness ==
    /\ resp.call = "query"
    /\ \E d1, d2 \in DaysArgs :
          /\ d1 < d2
          /\ \E r \in Range(get_recent(d1)) : WellFormed(StartOf(r))
          /\ \E r \in Range(get_recent(d2)) :
                WellFormed(StartOf(r)) /\ r \notin Range(get_recent(d1))

\* The date of a record with a well-formed start lies in the window of
\* get_recent(days): from today minus days up to today.
InWindow(r, days) ==
    /\ WellFormed(StartOf(r))
    /\ StrLeq(strftime(AddDays(now, 0 - days)), Prefix10(StartOf(r)))
    /\ StrLeq(Prefix10(StartOf(r)), strftime(now))

\* C11, as claimed: get_recent(days) returns exactly the stored records
\* whose start date lies from today minus days up to today.
C11_RecentWindow ==
    \A d \in DaysArgs :
        d >= 1 =>
            Range(get_recent(d)) =
                {r \in Range(DictValues(workouts)) : InWindow(r, d)}

\* The sum of one field over the entries of a mapping.
RECURSIVE SumField(_, _, _)
SumField(f, keys, field) ==
    IF keys = {} THEN 0
    ELSE LET k == CHOOSE x \in keys : TRUE
         IN  f[k][field] + SumField(f, keys \ {k}, field)

\* C12: for every days, get_summary(days).total_workouts is the number of
\* records get_recent(days) returns, and the counts of by_type add up to it.
C12_SummaryTotals ==
    \A d \in DaysArgs :
        LET summary == get_summary(d)
        IN  /\ summary.total_workouts = Len(get_recent(d))
            /\ SumField(summary.by_type, DOMAIN summary.by_type, "count")
                    = summary.total_workouts

\* C12 witness: one window leaves a stored record out of the summary,
\* another counts two records of two types.
C12_Witness ==
    /\ resp.call = "query"
    /\ \E d1, d2 \in DaysArgs :
          /\ get_summary(d1).total_workouts = 1
          /\ count = 2
          /\ get_summary(d2).total_workouts = 2
          /\ Cardinality(DOMAIN get_summary(d2).by_type) = 2

\* A secret is configured and the header is missing or differs from it.
Refused(h) == api_key # "" /\ h # <<api_key>>

\* C13: with a secret configured, a single ingest, batch ingest or clear
\* whose X-API-Key is missing or different is answered 401 and leaves the
\* mapping and the file unchanged; without a secret, every such request is
\* accepted whatever its header.  (A body that does not validate is
\* answered 422 before the route runs.)
C13_SharedSecret ==
    [][resp'.http \in {"ingest_workout", "ingest_workouts_batch", "clear_workouts"}
          /\ resp'.status # 422
       => IF Refused(resp'.x_api_key)
          THEN resp'.status = 401 /\ UNCHANGED <<workouts, file>>
          ELSE resp'.status = 200
      ]_vars

\* C13 witness: with a secret configured, a batch has been refused on a
\* store that holds a record.
C13_Witness ==
    /\ api_key = "secret"
    /\ resp.http = "ingest_workouts_batch"
    /\ resp.status = 401
    /\ resp.x_api_key = <<>>
    /\ count > 0

\* The dedup key as claimed: an absent field counts as the empty string.
KeyAsClaimed(w) == <<Get(w, "type", <<>>), Get(w, "start", <<>>)>>

\* C15, as claimed: a record without a field and a record with that field
\* empty (the other field equal) have one key, so the store never holds
\* both.
C15_AbsentIsEmpty ==
    \A i, j \in 1..Len(workouts) :
        KeyAsClaimed(workouts[i].v) = KeyAsClaimed(workouts[j].v) => i = j

\* The string s begins with the string p.
BeginsWith(s, p) == Len(p) <= Len(s) /\ \A i \in 1..Len(p) : s[i] = p[i]

\* C16: get_by_date(date) returns exactly the stored records whose start
\* begins with date, each once, in ascending order of start; get_today()
\* returns what get_by_date returns for today's date string.
C16_ByDate ==
    /\ \A date \in DateArgs :
          LET result == get_by_date(date)
          IN  /\ Range(result) =
                    {r \in Range(DictValues(workouts)) : BeginsWith(StartOf(r), date)}
              /\ Cardinality(Range(result)) = Len(result)
              /\ \A i, j \in 1..Len(result) :
                    i < j => StrLeq(StartOf(result[i]), StartOf(result[j]))
    /\ get_today = get_by_date(strftime(AddDays(StartDate, day)))

\* C16 witness: a date prefix selects two records with different starts,
\* and one of them is of today.
C16_Witness ==
    /\ resp.call = "query"
    /\ \E date \in DateArgs :
          /\ Len(get_by_date(date)) = 2
          /\ StartOf(get_by_date(date)[1]) # StartOf(get_by_date(date)[2])
    /\ Len(get_today) = 1
    /\ count = 2

\* The number a record holds in a field, a missing or null one counted 0.
NumberOf(r, field) ==
    IF field \in DOMAIN r /\ r[field] # <<>> THEN r[field][1] ELSE 0

\* The sum of a field over the records of a list.
RECURSIVE SumOver(_, _)
SumOver(lst, field) ==
    IF lst = <<>> THEN 0
    ELSE NumberOf(Head(lst), field) + SumOver(Tail(lst), field)

\* C17: total_duration_minutes is the sum of duration_minutes over the
\* records of get_recent(days), a missing one counted 0, and the sum of
\* by_type[t].total_duration; the same for calories.
C17_SummarySums ==
    \A d \in DaysArgs :
        LET summary == get_summary(d)
            recent == get_recent(d)
            types == DOMAIN summary.by_type
        IN  /\ summary.total_duration_minutes = SumOver(recent, "duration_minutes")
            /\ summary.total_duration_minutes
                    = SumField(summary.by_type, types, "total_duration")
            /\ summary.total_calories = SumOver(recent, "calories")
            /\ summary.total_calories
                    = SumField(summary.by_type, types, "total_calories")

\* C17 witness: a summary adds up two records of two types, one of them
\* without calories.
C17_Witness ==
    /\ resp.call = "query"
    /\ \E d \in DaysArgs :
          /\ Cardinality(DOMAIN get_summary(d).by_type) = 2
          /\ get_summary(d).total_duration_minutes > 30
          /\ get_summary(d).total_calories = 100
          /\ \E r \in Range(get_recent(d)) : "calories" \notin DOMAIN r

\* The positions of the file's list whose record has the key of the one
\* at position i.
SameKeyInFile(i) ==
    {j \in 1..Len(file.items) :
        _get_key(file.items[j].fields) = _get_key(file.items[i].fields)}

\* The greatest element of a set of numbers.
Max(S) == CHOOSE x \in S : \A y \in S : y <= x

\* C18: right after a load of a list of records, the store holds for each
\* key of the file exactly one record, the last one of the file with that
\* key, and count() is the number of distinct keys of the file.
C18_LoadLastWins ==
    resp.call = "load" /\ ~resp.caught /\ file.kind = "json" =>
        /\ \A i \in 1..Len(file.items) :
              LET held == {n \in 1..Len(workouts) :
                              workouts[n].k = _get_key(file.items[i].fields)}
              IN  /\ Cardinality(held) = 1
                  /\ \A n \in held :
                        workouts[n].v = file.items[Max(SameKeyInFile(i))].fields
        /\ count = Cardinality({_get_key(file.items[i].fields) :
                                    i \in 1..Len(file.items)})

\* C18 witness: a file of two different records with one key has been
\* loaded, and the store holds the second.
C18_Witness ==
    /\ resp.call = "load" /\ ~resp.caught /\ file.kind = "json"
    /\ Len(file.items) = 2
    /\ file.items[1] # file.items[2]
    /\ count = 1
    /\ workouts[1].v = file.items[2].fields

\* C19: for every days, get_recent(days) returns no record whose start is
\* shorter than 10 characters, and workouts_by_date of get_summary(days)
\* has no "unknown" key.
C19_NoUnknownDate ==
    \A d \in DaysArgs :
        /\ \A r \in Range(get_recent(d)) : Len(StartOf(r)) >= 10
        /\ UnknownDate \notin DOMAIN get_summary(d).workouts_by_date

\* C19 witness: the store holds a record without a start and one with the
\* empty start, and the widest window returns neither.
C19_Witness ==
    /\ resp.call = "query"
    /\ \E i, j \in 1..Len(workouts) :
          /\ "start" \notin DOMAIN workouts[i].v
          /\ "start" \in DOMAIN workouts[j].v /\ workouts[j].v.start = <<>>
    /\ get_recent(1) = <<>>
    /\ get_summary(1).total_workouts = 0

\* A step that answers a batch ingestion the route has run.
BatchStep == resp'.http = "ingest_workouts_batch" /\ resp'.status = 200

\* C20: a batch of k workouts reports total = k and new + updated = total,
\* with one result per workout in request order; new is the increase of
\* count(); a key is reported new at most once, and only if it was not
\* stored before the batch; after the batch the record stored for a key is
\* the last workout of the batch with that key.
C20_BatchReport ==
    [][BatchStep =>
        LET sent == resp'.arg
            report == resp'.ret
            k == Len(sent)
            newAt == {i \in 1..k : report.results[i].is_new}
        IN  /\ report.total = k
            /\ report.new + report.updated = report.total
            /\ Len(report.results) = k
            /\ \A i \in 1..k :
                  /\ report.results[i].type = sent[i].type
                  /\ report.results[i].start = sent[i].start
            /\ report.new = Cardinality(newAt)
            /\ report.new = Len(workouts') - Len(workouts)
            /\ \A i \in newAt :
                  /\ \A j \in newAt : _get_key(sent[j]) = _get_key(sent[i]) => j = i
                  /\ \A n \in 1..Len(workouts) : workouts[n].k # _get_key(sent[i])
            /\ \A i \in 1..k :
                  LET last == Max({j \in 1..k : _get_key(sent[j]) = _get_key(sent[i])})
                      held == {n \in 1..Len(workouts') :
                                  workouts'[n].k = _get_key(sent[i])}
                  IN  /\ Cardinality(held) = 1
                      /\ \A n \in held : workouts'[n].v = sent[last]
      ]_vars

\* C20 witness: a batch with one key twice, not stored before, has been
\* reported as one new and one updated, and the store holds the second.
C20_Witness ==
    /\ resp.http = "ingest_workouts_batch" /\ resp.status = 200
    /\ resp.ret.total = 2 /\ resp.ret.new = 1 /\ resp.ret.updated = 1
    /\ resp.ret.results[1].is_new /\ ~resp.ret.results[2].is_new
    /\ count = 1
    /\ workouts[1].v = resp.arg[2]
    /\ resp.arg[1] # resp.arg[2]

\* The orders in which the requests of a set can be run one at a time.
Orders(reqs) ==
    {order \in [1..Cardinality(reqs) -> reqs] : Range(order) = reqs}

\* The mapping and the file after the store calls of a handler, run
\* without interruption from the mapping and file st.
RECURSIVE SerialCalls(_, _)
SerialCalls(st, calls) ==
    IF calls = <<>> THEN st
    ELSE LET call == Head(calls)
             added == AddTo(st.workouts, st.file, call.workout, "ok")
         IN  SerialCalls(
                 IF call.op = "add_workout"
                 THEN [workouts |-> added.workouts, file |-> added.file]
                 ELSE [workouts |-> <<>>,
                       file |-> [kind |-> "json", items |-> json_dump(<<>>)]],
                 Tail(calls))

\* The mapping and the file after the requests of order, one at a time.
RECURSIVE Serial(_, _)
Serial(st, order) ==
    IF order = <<>> THEN st
    ELSE Serial(SerialCalls(st, Head(order).calls), Tail(order))

\* The server has answered every request of the round.
Quiet == inflight = {} /\ running = {} /\ begun.requests # {}

\* C14: once the requests issued together are all answered, the mapping
\* and the file are what running those requests one at a time, in some
\* order, gives from the mapping and file the round began with.
C14_Serializable ==
    Quiet =>
        \E order \in Orders(begun.requests) :
            Serial([workouts |-> begun.workouts, file |-> begun.file], order)
                = [workouts |-> workouts, file |-> file]

\* C14 witness: two requests issued together have been answered, and the
\* order they ran in shows in the store.
C14_Witness ==
    /\ Quiet
    /\ Cardinality(begun.requests) = 2
    /\ count > 0
    /\ \E o1, o2 \in Orders(begun.requests) :
          Serial([workouts |-> begun.workouts, file |-> begun.file], o1)
              # Serial([workouts |-> begun.workouts, file |-> begun.file], o2)

====
